---- MODULE Spec2Model ----
(***************************************************************************)
(* A model of the TAAN member scraper (Chef'skiss.py, scrapping_utils.py,  *)
(* config.py): the discovery of member URLs over the listing pages, the    *)
(* concurrent scrape of the detail pages, the retry pass and the export,   *)
(* together with the pure helpers (safe_request's retry loop, the URL and  *)
(* field extractors, validate_data).                                       *)
(*                                                                         *)
(* Text is modelled by TLA+ strings; Len, SubSeq and \o act on them as the *)
(* Python string operations they stand for.                                *)
(***************************************************************************)
EXTENDS Integers, Sequences, FiniteSets, TLC

(***************************************************************************)
(* Bounds of the model.                                                    *)
(***************************************************************************)
\* Number of member detail pages of the modelled site.
NumUrls == 2
\* Number of alphabetical filters of ALPHABET_FILTERS the model walks
\* (the program has 27: the trending page and 'a'..'z').
NumFilters == 2

(***************************************************************************)
(* config.py                                                               *)
(***************************************************************************)
BASE_URL == "https://www.taan.org.np"
MEMBERS_URLS ==
    << BASE_URL \o "/members",
       BASE_URL \o "/associate-members",
       BASE_URL \o "/regional-members" >>
MAX_WORKERS == 10
RETRY_ATTEMPTS == 3
MISSING_DATA_PLACEHOLDER == "none"
DATA_FIELDS ==
    << "Organization Name", "Registration Number", "VAT Number", "Address",
       "Country", "Website URL", "Email", "Telephone Number", "Mobile Number",
       "Fax", "PO Box", "Key Person", "Establishment Date", "Member Type" >>
\* The first NumFilters entries of ALPHABET_FILTERS ('' is the trending page).
ALPHABET_FILTERS ==
    SubSeq(<< "", "a", "b", "c", "d", "e" >>, 1, NumFilters)
\* max_workers of the pool get_all_member_urls creates per member type.
DISCOVERY_WORKERS == 5

(***************************************************************************)
(* Python string operations used by the program.                           *)
(***************************************************************************)
Range(seq) == { seq[i] : i \in 1..Len(seq) }

\* sub in s
Contains(s, sub) ==
    \E i \in 1..(Len(s) - Len(sub) + 1) : SubSeq(s, i, i + Len(sub) - 1) = sub

StartsWith(s, pre) ==
    Len(s) >= Len(pre) /\ SubSeq(s, 1, Len(pre)) = pre

CharAt(s, i) == SubSeq(s, i, i)

IsSpace(c) == c \in { " ", "\t", "\n", "\r" }

UpperChars == << "A","B","C","D","E","F","G","H","I","J","K","L","M",
                 "N","O","P","Q","R","S","T","U","V","W","X","Y","Z" >>
LowerChars == << "a","b","c","d","e","f","g","h","i","j","k","l","m",
                 "n","o","p","q","r","s","t","u","v","w","x","y","z" >>

LowerChar(c) ==
    IF \E k \in 1..26 : UpperChars[k] = c
    THEN LowerChars[CHOOSE k \in 1..26 : UpperChars[k] = c]
    ELSE c

UpperChar(c) ==
    IF \E k \in 1..26 : LowerChars[k] = c
    THEN UpperChars[CHOOSE k \in 1..26 : LowerChars[k] = c]
    ELSE c

IsAlpha(c) ==
    \E k \in 1..26 : UpperChars[k] = c \/ LowerChars[k] = c

\* s.lower()
RECURSIVE Lower(_)
Lower(s) ==
    IF s = "" THEN "" ELSE LowerChar(CharAt(s, 1)) \o Lower(Tail(s))

\* s.lstrip(), s.rstrip(), s.strip()
RECURSIVE LStrip(_)
LStrip(s) ==
    IF s # "" /\ IsSpace(CharAt(s, 1)) THEN LStrip(Tail(s)) ELSE s

RECURSIVE RStrip(_)
RStrip(s) ==
    IF s # "" /\ IsSpace(CharAt(s, Len(s)))
    THEN RStrip(SubSeq(s, 1, Len(s) - 1))
    ELSE s

Strip(s) == LStrip(RStrip(s))

\* s.split(): the whitespace-separated words of s, in order.
RECURSIVE SplitWords(_, _)
SplitWords(s, word) ==
    IF s = ""
    THEN IF word = "" THEN << >> ELSE << word >>
    ELSE IF IsSpace(CharAt(s, 1))
         THEN (IF word = "" THEN << >> ELSE << word >>)
              \o SplitWords(Tail(s), "")
         ELSE SplitWords(Tail(s), word \o CharAt(s, 1))

\* sep.join(words)
RECURSIVE Join(_, _)
Join(sep, words) ==
    IF words = << >> THEN ""
    ELSE IF Len(words) = 1 THEN words[1]
    ELSE words[1] \o sep \o Join(sep, Tail(words))

\* s.replace(old, new), old non-empty
RECURSIVE Replace(_, _, _)
Replace(s, old, new) ==
    IF s = "" THEN ""
    ELSE IF StartsWith(s, old)
         THEN new \o Replace(SubSeq(s, Len(old) + 1, Len(s)), old, new)
         ELSE CharAt(s, 1) \o Replace(Tail(s), old, new)

\* s.split(sep, 1): s cut at the first occurrence of the one-character sep.
RECURSIVE SplitOnce(_, _, _)
SplitOnce(s, sep, before) ==
    IF s = "" THEN << before >>
    ELSE IF CharAt(s, 1) = sep THEN << before, Tail(s) >>
    ELSE SplitOnce(Tail(s), sep, before \o CharAt(s, 1))

\* s.split(sep)[-1]: the part of s after the last one-character sep.
RECURSIVE LastPart(_, _, _)
LastPart(s, sep, part) ==
    IF s = "" THEN part
    ELSE IF CharAt(s, 1) = sep THEN LastPart(Tail(s), sep, "")
    ELSE LastPart(Tail(s), sep, part \o CharAt(s, 1))

\* s.title(): the first letter of every run of letters upper-cased, the rest
\* lower-cased.
RECURSIVE Title(_, _)
Title(s, inWord) ==
    IF s = "" THEN ""
    ELSE LET c == CharAt(s, 1) IN
         (IF IsAlpha(c)
          THEN (IF inWord THEN LowerChar(c) ELSE UpperChar(c))
          ELSE c)
         \o Title(Tail(s), IsAlpha(c))

(***************************************************************************)
(* scrapping_utils.py: extract_member_urls                                 *)
(***************************************************************************)
\* A listing page is the sequence of the href attributes of its anchors, in
\* document order ("" for an anchor with no href).

\* urljoin(base_url, href) for a base URL without a path: an absolute href is
\* kept, a root-relative one is put behind the base's scheme and host, any
\* other one is resolved against the base's root.
urljoin(base_url, href) ==
    IF StartsWith(href, "http://") \/ StartsWith(href, "https://") THEN href
    ELSE IF StartsWith(href, "/") THEN base_url \o href
    ELSE base_url \o "/" \o href

\* The href filter of soup.find_all('a', href=lambda x: ...).
IsMemberHref(x) ==
    x # "" /\ Contains(x, "/members/") /\ x # "/members/"

RECURSIVE ExtractLoop(_, _, _)
ExtractLoop(links, base_url, link_urls) ==
    IF links = << >> THEN link_urls
    ELSE LET href == Head(links)
             full_url == urljoin(base_url, href)
         IN  ExtractLoop(Tail(links), base_url,
                 IF IsMemberHref(href)
                    /\ \A k \in 1..Len(link_urls) : link_urls[k] # full_url
                 THEN Append(link_urls, full_url)
                 ELSE link_urls)

extract_member_urls(links, base_url) == ExtractLoop(links, base_url, << >>)

(***************************************************************************)
(* scrapping_utils.py: clean_text, extract_member_data, validate_data      *)
(***************************************************************************)
clean_text(text) ==
    IF text = "" THEN MISSING_DATA_PLACEHOLDER
    ELSE LET cleaned == Join(" ", SplitWords(Strip(text), ""))
         IN  IF cleaned # "" THEN cleaned ELSE MISSING_DATA_PLACEHOLDER

\* A detail page (the parsed soup):
\*   h1, title : the texts of the h1 elements and of the title elements;
\*   body      : the li, div, p and table elements in document order, each
\*               [tag, text, href, rows]: text is get_text(), href the href of
\*               the first anchor inside ("" when there is none), rows the
\*               rows of a table, each a sequence of cells [tag, text, href].
Elem(tag, text, href) == [tag |-> tag, text |-> text, href |-> href, rows |-> << >>]
Cell(tag, text, href) == [tag |-> tag, text |-> text, href |-> href]
Table(rows) == [tag |-> "table", text |-> "", href |-> "", rows |-> rows]

RECURSIVE Flatten(_)
Flatten(seqs) ==
    IF seqs = << >> THEN << >> ELSE Head(seqs) \o Flatten(Tail(seqs))

SelectTag(cells, tags) == SelectSeq(cells, LAMBDA c : c.tag \in tags)

\* soup.find_all(['li', 'div', 'p', 'td']): the td cells of a table are
\* among the scanned items.
ListItems(soup) ==
    Flatten([k \in 1..Len(soup.body) |->
        IF soup.body[k].tag = "table"
        THEN SelectTag(Flatten(soup.body[k].rows), {"td"})
        ELSE << soup.body[k] >>])

\* The tr rows of every table, each reduced to its td and th cells.
TableRows(soup) ==
    Flatten([k \in 1..Len(soup.body) |->
        IF soup.body[k].tag = "table"
        THEN [r \in 1..Len(soup.body[k].rows) |->
                 SelectTag(soup.body[k].rows[r], {"td", "th"})]
        ELSE << >>])

InitData == [f \in { DATA_FIELDS[k] : k \in 1..Len(DATA_FIELDS) } |->
                MISSING_DATA_PLACEHOLDER]

\* Lines 81-85: the title heuristic.
ApplyTitle(data, soup) ==
    LET elems == soup.h1 \o soup.title IN
    IF elems = << >> THEN data
    ELSE LET org_name == clean_text(Head(elems)) IN
         IF org_name # MISSING_DATA_PLACEHOLDER
         THEN [data EXCEPT !["Organization Name"] = org_name]
         ELSE data

\* Lines 100-135: the rule chain of the list scan.
ListRule(data, key, value, href) ==
    IF Contains(key, "organization name")
        THEN [data EXCEPT !["Organization Name"] = value]
    ELSE IF Contains(key, "reg") /\ Contains(key, "no")
        THEN [data EXCEPT !["Registration Number"] = value]
    ELSE IF Contains(key, "vat")
        THEN [data EXCEPT !["VAT Number"] = value]
    ELSE IF Contains(key, "address")
        THEN [data EXCEPT !["Address"] = value]
    ELSE IF Contains(key, "country")
        THEN [data EXCEPT !["Country"] = value]
    ELSE IF Contains(key, "website") \/ Contains(key, "url")
        THEN [data EXCEPT !["Website URL"] = IF href # "" THEN href ELSE value]
    ELSE IF Contains(key, "email")
        THEN [data EXCEPT !["Email"] =
                 IF href # "" /\ Contains(href, "mailto:")
                 THEN Replace(href, "mailto:", "") ELSE value]
    ELSE IF Contains(key, "telephone")
        THEN [data EXCEPT !["Telephone Number"] = value]
    ELSE IF Contains(key, "mobile")
        THEN [data EXCEPT !["Mobile Number"] = value]
    ELSE IF Contains(key, "fax")
        THEN [data EXCEPT !["Fax"] = value]
    ELSE IF Contains(key, "po box") \/ Contains(key, "p.o")
        THEN [data EXCEPT !["PO Box"] = value]
    ELSE IF Contains(key, "key person")
        THEN [data EXCEPT !["Key Person"] = value]
    ELSE IF Contains(key, "establishment") \/ Contains(key, "date")
        THEN [data EXCEPT !["Establishment Date"] = value]
    ELSE data

\* Lines 92-97: one item of the list scan.
ApplyItem(data, item) ==
    LET text == Strip(item.text) IN
    IF Contains(text, ":")
    THEN LET parts == SplitOnce(text, ":", "") IN
         IF Len(parts) = 2
         THEN ListRule(data, Lower(Strip(parts[1])), clean_text(parts[2]),
                       item.href)
         ELSE data
    ELSE data

\* Lines 148-175: the rule chain of the table scan.
TableRule(data, key, value, href) ==
    IF Contains(key, "organization name")
        THEN [data EXCEPT !["Organization Name"] = value]
    ELSE IF Contains(key, "reg")
        THEN [data EXCEPT !["Registration Number"] = value]
    ELSE IF Contains(key, "address")
        THEN [data EXCEPT !["Address"] = value]
    ELSE IF Contains(key, "country")
        THEN [data EXCEPT !["Country"] = value]
    ELSE IF Contains(key, "website")
        THEN [data EXCEPT !["Website URL"] = IF href # "" THEN href ELSE value]
    ELSE IF Contains(key, "email")
        THEN [data EXCEPT !["Email"] =
                 IF href # "" /\ Contains(href, "mailto:")
                 THEN Replace(href, "mailto:", "") ELSE value]
    ELSE IF Contains(key, "telephone")
        THEN [data EXCEPT !["Telephone Number"] = value]
    ELSE IF Contains(key, "mobile")
        THEN [data EXCEPT !["Mobile Number"] = value]
    ELSE IF Contains(key, "p.o") \/ Contains(key, "po box")
        THEN [data EXCEPT !["PO Box"] = value]
    ELSE IF Contains(key, "key person")
        THEN [data EXCEPT !["Key Person"] = value]
    ELSE data

\* Lines 142-145: one row of the table scan.
ApplyRow(data, cells) ==
    IF Len(cells) >= 2
    THEN TableRule(data, Replace(Lower(Strip(cells[1].text)), ":", ""),
                   clean_text(cells[2].text), cells[2].href)
    ELSE data

\* The steps of the try block after the initialisation of the fields, in
\* the order the code runs them: the title, every scanned item, every row.
ExtractSteps(soup) ==
    << [kind |-> "title"] >>
    \o [k \in 1..Len(ListItems(soup)) |->
           [kind |-> "item", item |-> ListItems(soup)[k]]]
    \o [k \in 1..Len(TableRows(soup)) |->
           [kind |-> "row", cells |-> TableRows(soup)[k]]]

ApplyStep(data, soup, step) ==
    IF step.kind = "title" THEN ApplyTitle(data, soup)
    ELSE IF step.kind = "item" THEN ApplyItem(data, step.item)
    ELSE ApplyRow(data, step.cells)

RECURSIVE RunSteps(_, _, _, _)
RunSteps(data, soup, steps, n) ==
    IF n = 0 \/ steps = << >> THEN data
    ELSE RunSteps(ApplyStep(data, soup, Head(steps)), soup, Tail(steps), n - 1)

\* What the except clause of extract_member_data returns (lines 177-180).
ExceptReturn(data) == data

\* extract_member_data(soup). raiseAt = 0: no step raises; raiseAt = k > 0:
\* step k of ExtractSteps raises before it stores anything, the except clause
\* logs the error and the function returns.
extract_member_data(soup, raiseAt) ==
    LET steps == ExtractSteps(soup) IN
    IF raiseAt = 0 \/ raiseAt > Len(steps)
    THEN RunSteps(InitData, soup, steps, Len(steps))
    ELSE ExceptReturn(RunSteps(InitData, soup, steps, raiseAt - 1))

\* A validation that looks at the organization name only.
validate_data_name_only(data) ==
    data["Organization Name"] # MISSING_DATA_PLACEHOLDER

NonEmptyFields(data) ==
    Cardinality({ f \in DOMAIN data : data[f] # MISSING_DATA_PLACEHOLDER })

validate_data(data) ==
    LET org_name == IF "Organization Name" \in DOMAIN data
                    THEN data["Organization Name"]
                    ELSE MISSING_DATA_PLACEHOLDER
    IN  IF org_name = MISSING_DATA_PLACEHOLDER THEN FALSE
        ELSE NonEmptyFields(data) >= 3

(***************************************************************************)
(* The modelled site.                                                      *)
(***************************************************************************)
Digits == << "1", "2", "3", "4", "5", "6", "7", "8", "9" >>

\* The detail page of member i.
MemberPath(i) == "/members/m" \o Digits[i]
MemberUrl(i) == BASE_URL \o MemberPath(i)
MemberUrls == { MemberUrl(i) : i \in 1..NumUrls }

\* Lines 58-62: the URL of the listing page of a section and a filter.
ListingUrl(base_url, filter_char) ==
    IF filter_char # "" THEN base_url \o "?l=" \o filter_char ELSE base_url

ListingUrls ==
    { ListingUrl(MEMBERS_URLS[s], ALPHABET_FILTERS[f]) :
        s \in 1..Len(MEMBERS_URLS), f \in 1..NumFilters }

\* Member i is listed on one filter page of one section; member 1 is listed
\* on that filter page of every section (a URL that recurs under different
\* member types).
FilterOf(i) == ((i - 1) % NumFilters) + 1
SectionOf(i) == ((i - 1) % Len(MEMBERS_URLS)) + 1
Listed(s, f) ==
    { i \in 1..NumUrls : FilterOf(i) = f /\ (i = 1 \/ SectionOf(i) = s) }

RECURSIVE MemberLinks(_, _)
MemberLinks(members, i) ==
    IF i > NumUrls THEN << >>
    ELSE (IF i \in members THEN << MemberPath(i), MemberUrl(i) >> ELSE << >>)
         \o MemberLinks(members, i + 1)

\* The anchors of a listing page: the index page's self-link, every listed
\* member twice (a root-relative and an absolute href), a link elsewhere.
FixedSite ==
    [u \in ListingUrls |->
        LET s == CHOOSE s \in 1..Len(MEMBERS_URLS) :
                    \E f \in 1..NumFilters :
                        ListingUrl(MEMBERS_URLS[s], ALPHABET_FILTERS[f]) = u
            f == CHOOSE f \in 1..NumFilters :
                    ListingUrl(MEMBERS_URLS[s], ALPHABET_FILTERS[f]) = u
        IN  << "/members/" >> \o MemberLinks(Listed(s, f), 1) \o << "/about" >>]

\* The heading of the detail page of a member URL.
OrgNames == [url \in MemberUrls |-> "Member " \o LastPart(url, "/", "")]

OrgNameOf(url) == OrgNames[url]

\* The detail page of a member URL: the page of member 1 carries an
\* address, an e-mail and a registration number, the page of any other
\* member nothing but its heading and a line of prose.
DetailSoup(url) ==
    [h1 |-> << "  " \o OrgNameOf(url) \o "\n" >>,
     title |-> << "TAAN" >>,
     body |-> IF url = MemberUrl(1)
              THEN << Elem("li", "Address: Kathmandu,  Nepal", ""),
                      Elem("li", "Email: write us", "mailto:info@example.com"),
                      Table(<< << Cell("td", "Reg. No:", ""),
                                  Cell("td", "12345", "") >> >>) >>
              ELSE << Elem("p", "Trekking agency in Kathmandu", "") >>]

(***************************************************************************)
(* Chef'skiss.py: the state of a run.                                      *)
(***************************************************************************)
VARIABLES
    site,             \* listing URL -> the hrefs of the page's anchors
    mpc,              \* where the main thread is
    sec,              \* index in MEMBERS_URLS of the section being discovered
    tasks,            \* the calls in progress: 0 is the call the main thread
                      \* makes itself, 1.. are the futures of the current pool
    collected,        \* the futures as_completed has yielded
    cur,              \* the future whose result the main thread holds
    lock,             \* self.lock: the thread holding it, or Free
    scraped_urls,     \* self.scraped_urls
    scraped_data,     \* self.scraped_data
    failed_urls,      \* self.failed_urls
    progress_counter, \* self.progress_counter
    url_to_type,      \* the local url_to_type of get_all_member_urls
    self_url_to_type, \* self.url_to_type
    all_urls,         \* the local all_urls of get_all_member_urls
    member_urls,      \* what get_all_member_urls returned
    returned,         \* what scrape_all_members returned to main
    failed_copy,      \* locals of retry_failed_urls
    retry_data,
    ridx,
    files,            \* the spreadsheets written
    interrupted,      \* a KeyboardInterrupt was raised in the main thread
    unit_soup,        \* the page handed to extract_member_data called alone
    raise_at,         \* the step of that call that raises (0: none)
    record,           \* what that call returned
    upc,              \* where that call is
    is_valid,         \* what validate_data said of the record
    pages,            \* the listing pages handed to extract_member_urls alone
    found,            \* what it returned for each of them
    merged            \* the merged list of lines 76 and 85-90

vars == << site, mpc, sec, tasks, collected, cur, lock, scraped_urls,
           scraped_data, failed_urls, progress_counter, url_to_type,
           self_url_to_type, all_urls, member_urls, returned, failed_copy,
           retry_data, ridx, files, interrupted, unit_soup, raise_at, record, upc,
           is_valid, pages, found, merged >>

\* The variables of a run, and those of a call of extract_member_data alone.
unitVars == << unit_soup, raise_at, record, upc, is_valid, pages, found,
              merged >>

Free == -1
MainThread == 0
EmptyDict == << >>

IdleCall ==
    [kind |-> "none", url |-> "", mtype |-> "", pc |-> "idle",
     attempt |-> 0, gets |-> 0, resp |-> "unset", urls |-> << >>,
     data |-> EmptyDict, warned |-> FALSE, trace |-> << >>]

NewTask(kind, url, mtype, pc) ==
    [kind |-> kind, url |-> url, mtype |-> mtype, pc |-> pc,
     attempt |-> 0, gets |-> 0, resp |-> "unset", urls |-> << >>,
     data |-> EmptyDict, warned |-> FALSE, trace |-> << >>]

Futures == DOMAIN tasks \ {0}
Resolved(t) == tasks[t].pc = "done"
Running(t) == tasks[t].pc \notin { "queued", "done", "idle" }

\* Lines 44-50: the member type computed from a section's URL.
MemberTypeFrom(base_url) ==
    LET member_type == Title(Replace(LastPart(base_url, "/", ""), "-", " "), FALSE)
    IN  IF member_type = "Members" THEN "General"
        ELSE IF member_type = "Associate Members" THEN "Associate"
        ELSE IF member_type = "Regional Members" THEN "Regional"
        ELSE member_type

\* The member types of the sections of MEMBERS_URLS, computed once.
MemberTypes == [base_url \in Range(MEMBERS_URLS) |-> MemberTypeFrom(base_url)]

\* member_type in the loop of line 43.
MemberTypeOf(base_url) == MemberTypes[base_url]

\* dict.get(url, "General")
TypeOfUrl(dict, url) == IF url \in DOMAIN dict THEN dict[url] ELSE "General"

NoSoup == [h1 |-> << >>, title |-> << >>, body |-> << >>]

Init ==
    /\ site = FixedSite
    /\ mpc = "discover_submit"
    /\ sec = 1
    /\ tasks = [t \in {0} |-> IdleCall]
    /\ collected = {}
    /\ cur = 0
    /\ lock = Free
    /\ scraped_urls = {}
    /\ scraped_data = << >>
    /\ failed_urls = << >>
    /\ progress_counter = 0
    /\ url_to_type = << >>
    /\ self_url_to_type = << >>
    /\ all_urls = << >>
    /\ member_urls = << >>
    /\ returned = "nothing"
    /\ failed_copy = << >>
    /\ retry_data = << >>
    /\ ridx = 0
    /\ files = << >>
    /\ interrupted = FALSE
    /\ unit_soup = NoSoup
    /\ raise_at = 0
    /\ record = EmptyDict
    /\ upc = "unused"
    /\ is_valid = FALSE
    /\ pages = << >>
    /\ found = << >>
    /\ merged = << >>

(***************************************************************************)
(* scrapping_utils.py: safe_request, one iteration of its loop per step.   *)
(***************************************************************************)
\* What session.get followed by raise_for_status does: "ok" returns the
\* response, "http_error" (raise_for_status) and "transport_error" (timeout,
\* connection error) raise a RequestException.
GetOutcomes == { "ok", "http_error", "transport_error" }

\* A loop that allows one attempt too many.
LastAttemptOffByOne(attempt, max_retries) == attempt = max_retries

\* Line 37: attempt == max_retries - 1
LastAttempt(attempt, max_retries) == attempt = max_retries - 1

\* Durations are counted in tenths of a second.
TicksPerSecond == 10

\* config.py line 19: DELAY_BETWEEN_REQUESTS = 0.5 (seconds)
DELAY_BETWEEN_REQUESTS == 5

\* A backoff that grows by a fixed amount per attempt.
BackoffLinear(attempt) == (2 * attempt) * TicksPerSecond

\* Line 40: time.sleep(2 ** attempt)
Backoff(attempt) == (2 ^ attempt) * TicksPerSecond

\* Line 31: time.sleep(DELAY_BETWEEN_REQUESTS)
Slept(duration) == << "sleep", duration >>

\* Line 32: session.get(url, timeout=REQUEST_TIMEOUT), in iteration attempt
Got(attempt) == << "get", attempt >>

\* Lines 29-40: the politeness delay, the GET and, when it fails, either the
\* return of None (last attempt) or the backoff sleep before the next one.
\* trace is what the call has done so far, in order.
SafeRequestStep(task, outcome, max_retries) ==
    LET tried == task.trace \o << Slept(DELAY_BETWEEN_REQUESTS), Got(task.attempt) >>
    IN  IF outcome = "ok"
        THEN [task EXCEPT !.gets = @ + 1, !.resp = "ok", !.pc = "respond",
                          !.trace = tried]
        ELSE IF LastAttempt(task.attempt, max_retries)
             THEN [task EXCEPT !.gets = @ + 1, !.resp = "none", !.pc = "respond",
                               !.trace = tried]
             ELSE [task EXCEPT !.gets = @ + 1, !.attempt = @ + 1,
                               !.trace = Append(tried, Slept(Backoff(task.attempt)))]

\* The locals of safe_request are gone once its caller has the response
\* (resp is the caller's local response).
Returned(task) == [task EXCEPT !.attempt = 0, !.gets = 0, !.trace = << >>]

Attempt(t) ==
    /\ tasks[t].pc = "request"
    /\ \E outcome \in GetOutcomes :
          tasks' = [tasks EXCEPT ![t] = SafeRequestStep(@, outcome, RETRY_ATTEMPTS)]
    /\ UNCHANGED unitVars
    /\ UNCHANGED << site, mpc, sec, collected, cur, lock, scraped_urls,
                    scraped_data, failed_urls, progress_counter, url_to_type,
                    self_url_to_type, all_urls, member_urls, returned,
                    failed_copy, retry_data, ridx, files, interrupted >>

(***************************************************************************)
(* The worker pools (ThreadPoolExecutor).                                  *)
(***************************************************************************)
PoolSize == IF mpc = "discover_collect" THEN DISCOVERY_WORKERS ELSE MAX_WORKERS

\* A worker thread takes the oldest queued call off the pool's queue.
Start(t) ==
    /\ t \in Futures
    /\ tasks[t].pc = "queued"
    /\ \A j \in Futures : j < t => tasks[j].pc # "queued"
    /\ Cardinality({ j \in Futures : Running(j) }) < PoolSize
    /\ tasks' = [tasks EXCEPT ![t].pc =
                    IF tasks[t].kind = "listing" THEN "request" ELSE "lock1"]
    /\ UNCHANGED unitVars
    /\ UNCHANGED << site, mpc, sec, collected, cur, lock, scraped_urls,
                    scraped_data, failed_urls, progress_counter, url_to_type,
                    self_url_to_type, all_urls, member_urls, returned,
                    failed_copy, retry_data, ridx, files, interrupted >>

(***************************************************************************)
(* Chef'skiss.py: _get_page_member_urls                                    *)
(***************************************************************************)
\* What extract_member_urls returns for each page of the modelled site,
\* computed once.
SiteMemberUrls ==
    [u \in ListingUrls |-> extract_member_urls(FixedSite[u], BASE_URL)]

\* Lines 101-102: the member URLs of a fetched listing page.
PageMemberUrls(page_url) ==
    IF site = FixedSite THEN SiteMemberUrls[page_url]
    ELSE extract_member_urls(site[page_url], BASE_URL)

\* Lines 98-104.
ListingReturn(t) ==
    /\ tasks[t].kind = "listing"
    /\ tasks[t].pc = "respond"
    /\ tasks' = [tasks EXCEPT ![t] =
          [Returned(@) EXCEPT
              !.urls = IF tasks[t].resp = "none" THEN << >>
                       ELSE PageMemberUrls(tasks[t].url),
              !.pc = "done"]]
    /\ UNCHANGED unitVars
    /\ UNCHANGED << site, mpc, sec, collected, cur, lock, scraped_urls,
                    scraped_data, failed_urls, progress_counter, url_to_type,
                    self_url_to_type, all_urls, member_urls, returned,
                    failed_copy, retry_data, ridx, files, interrupted >>

(***************************************************************************)
(* Chef'skiss.py: scrape_member_data                                       *)
(***************************************************************************)
\* Line 110: with self.lock
AcquireVisited(t) ==
    /\ tasks[t].pc = "lock1"
    /\ lock = Free
    /\ lock' = t
    /\ tasks' = [tasks EXCEPT ![t].pc = "check"]
    /\ UNCHANGED unitVars
    /\ UNCHANGED << site, mpc, sec, collected, cur, scraped_urls,
                    scraped_data, failed_urls, progress_counter, url_to_type,
                    self_url_to_type, all_urls, member_urls, returned,
                    failed_copy, retry_data, ridx, files, interrupted >>

\* A call that never finds its URL in the visited set.
AlreadyScrapedUnchecked(member_url, urls) == FALSE

\* Line 111: member_url in self.scraped_urls
AlreadyScraped(member_url, urls) == member_url \in urls

\* A call that goes on without entering its URL in the visited set.
MarkVisitedSkipped(urls, member_url) == urls

\* Line 113: self.scraped_urls.add(member_url)
MarkVisited(urls, member_url) == urls \cup { member_url }

\* A with block that keeps the lock when it is left.
ReleaseLeaked(holder) == holder

\* The end of a "with self.lock" block.
Release(holder) == Free

\* Lines 111-113, and the release of the lock.
CheckVisited(t) ==
    /\ tasks[t].pc = "check"
    /\ lock = t
    /\ lock' = Release(t)
    /\ IF AlreadyScraped(tasks[t].url, scraped_urls)
       THEN /\ tasks' = [tasks EXCEPT ![t].data = EmptyDict, ![t].pc = "done"]
            /\ UNCHANGED scraped_urls
       ELSE /\ scraped_urls' = MarkVisited(scraped_urls, tasks[t].url)
            /\ tasks' = [tasks EXCEPT ![t].pc = "request"]
    /\ UNCHANGED unitVars
    /\ UNCHANGED << site, mpc, sec, collected, cur, scraped_data,
                    failed_urls, progress_counter, url_to_type,
                    self_url_to_type, all_urls, member_urls, returned,
                    failed_copy, retry_data, ridx, files, interrupted >>

\* A failure that is not registered.
LogFailureDropped(failed, member_url) == failed

\* A failure logged by the call and once more by its exception handler.
LogFailureTwice(failed, member_url) ==
    Append(Append(failed, member_url), member_url)

\* Lines 117 and 139: self.failed_urls.append(member_url)
LogFailure(failed, member_url) == Append(failed, member_url)

\* A failed call whose future never resolves.
FailedCallUnresolved(task) ==
    [Returned(task) EXCEPT !.data = EmptyDict, !.pc = "failed"]

\* Lines 118 and 140: a failed call returns {}, its future resolves.
FailedCall(task) ==
    [Returned(task) EXCEPT !.data = EmptyDict, !.pc = "done"]

\* Lines 116-118: no response.
DetailNoResponse(t) ==
    /\ tasks[t].kind = "detail"
    /\ tasks[t].pc = "respond"
    /\ tasks[t].resp = "none"
    /\ failed_urls' = LogFailure(failed_urls, tasks[t].url)
    /\ tasks' = [tasks EXCEPT ![t] = FailedCall(@)]
    /\ UNCHANGED unitVars
    /\ UNCHANGED << site, mpc, sec, collected, cur, lock, scraped_urls,
                    scraped_data, progress_counter, url_to_type,
                    self_url_to_type, all_urls, member_urls, returned,
                    failed_copy, retry_data, ridx, files, interrupted >>

\* What extract_member_data returns for each detail page of the modelled
\* site, computed once.
SiteRecords ==
    { [url |-> u, data |-> extract_member_data(DetailSoup(u), 0)] :
        u \in MemberUrls }

\* Lines 120-124: the record of a fetched page.
ScrapedRecord(member_url, member_type) ==
    [(CHOOSE r \in SiteRecords : r.url = member_url).data
        EXCEPT !["Member Type"] = member_type]

\* A call that returns no record when validate_data rejects it.
ReturnedRecordIfValid(data, valid) == IF valid THEN data ELSE EmptyDict

\* Lines 127-135: the warning is logged, the record returned all the same.
ReturnedRecord(data, valid) == data

\* Lines 120-128, or an exception in them and lines 137-140.
DetailParse(t) ==
    /\ tasks[t].kind = "detail"
    /\ tasks[t].pc = "respond"
    /\ tasks[t].resp = "ok"
    /\ \E raises \in BOOLEAN :
          IF raises
          THEN /\ failed_urls' = LogFailure(failed_urls, tasks[t].url)
               /\ tasks' = [tasks EXCEPT ![t] = FailedCall(@)]
          ELSE /\ UNCHANGED failed_urls
               /\ LET data == ScrapedRecord(tasks[t].url, tasks[t].mtype)
                      valid == validate_data(data)
                  IN  tasks' = [tasks EXCEPT ![t] =
                         [Returned(@) EXCEPT
                             !.data = ReturnedRecord(data, valid),
                             !.warned = ~valid,
                             !.pc = "lock2"]]
    /\ UNCHANGED unitVars
    /\ UNCHANGED << site, mpc, sec, collected, cur, lock, scraped_urls,
                    scraped_data, progress_counter, url_to_type,
                    self_url_to_type, all_urls, member_urls, returned,
                    failed_copy, retry_data, ridx, files, interrupted >>

\* Line 131: with self.lock
AcquireProgress(t) ==
    /\ tasks[t].pc = "lock2"
    /\ lock = Free
    /\ lock' = t
    /\ tasks' = [tasks EXCEPT ![t].pc = "count"]
    /\ UNCHANGED unitVars
    /\ UNCHANGED << site, mpc, sec, collected, cur, scraped_urls,
                    scraped_data, failed_urls, progress_counter, url_to_type,
                    self_url_to_type, all_urls, member_urls, returned,
                    failed_copy, retry_data, ridx, files, interrupted >>

\* A counter that is not incremented.
NextProgressStuck(counter) == counter

\* Line 132: self.progress_counter += 1
NextProgress(counter) == counter + 1

\* Lines 132-135, and the release of the lock.
CountProgress(t) ==
    /\ tasks[t].pc = "count"
    /\ lock = t
    /\ lock' = Release(t)
    /\ progress_counter' = NextProgress(progress_counter)
    /\ tasks' = [tasks EXCEPT ![t].pc = "done"]
    /\ UNCHANGED unitVars
    /\ UNCHANGED << site, mpc, sec, collected, cur, scraped_urls,
                    scraped_data, failed_urls, url_to_type,
                    self_url_to_type, all_urls, member_urls, returned,
                    failed_copy, retry_data, ridx, files, interrupted >>

(***************************************************************************)
(* Chef'skiss.py: get_all_member_urls, run by the main thread.             *)
(***************************************************************************)
NoFutures == [t \in {0} |-> IdleCall]

\* A loop over the futures that ends before all of them were yielded.
AllYieldedEarly == TRUE

\* The "for future in as_completed(...)" loops of lines 68 and 174 end when
\* every future has been yielded.
AllYielded == collected = Futures

\* Lines 54-65: the pool of one member type and its listing-page calls.
DiscoverSubmit ==
    /\ mpc = "discover_submit"
    /\ tasks' = [t \in 0..Len(ALPHABET_FILTERS) |->
                    IF t = 0 THEN IdleCall
                    ELSE NewTask("listing",
                                 ListingUrl(MEMBERS_URLS[sec], ALPHABET_FILTERS[t]),
                                 MemberTypeOf(MEMBERS_URLS[sec]), "queued")]
    /\ collected' = {}
    /\ mpc' = "discover_collect"
    /\ UNCHANGED unitVars
    /\ UNCHANGED << site, sec, cur, lock, scraped_urls, scraped_data,
                    failed_urls, progress_counter, url_to_type,
                    self_url_to_type, all_urls, member_urls, returned,
                    failed_copy, retry_data, ridx, files, interrupted >>

\* A tagging that keeps the first member type of a URL (dict.setdefault).
TagUrlsFirstWins(dict, urls, member_type) ==
    [u \in DOMAIN dict \cup { urls[k] : k \in 1..Len(urls) } |->
        IF u \in DOMAIN dict THEN dict[u] ELSE member_type]

\* Lines 74-75: for url in urls: url_to_type[url] = member_type
TagUrls(dict, urls, member_type) ==
    [u \in DOMAIN dict \cup Range(urls) |->
        IF u \in Range(urls) THEN member_type ELSE dict[u]]

\* Line 65: the label kept in futures[future].
FilterName(member_type, filter_char) ==
    member_type \o "-" \o (IF filter_char # "" THEN filter_char ELSE "trending")

\* A tagging with the label of the page the future was submitted for.
TaggedWithFilterName(member_type, filter_name) == filter_name

\* Line 75: the value stored for a URL, with member_type (line 44) and
\* filter_name (line 69) in scope.
TaggedWith(member_type, filter_name) == member_type

\* Lines 68-77: one future yielded by as_completed.
DiscoverCollect ==
    /\ mpc = "discover_collect"
    /\ \E t \in Futures \ collected :
          /\ Resolved(t)
          /\ collected' = collected \cup {t}
          /\ IF tasks[t].urls # << >>
             THEN /\ url_to_type' =
                       LET member_type == MemberTypeOf(MEMBERS_URLS[sec])
                           filter_name == FilterName(member_type,
                                                     ALPHABET_FILTERS[t])
                       IN  TagUrls(url_to_type, tasks[t].urls,
                                   TaggedWith(member_type, filter_name))
                  /\ all_urls' = all_urls \o tasks[t].urls
             ELSE UNCHANGED << url_to_type, all_urls >>
    /\ UNCHANGED unitVars
    /\ UNCHANGED << site, mpc, sec, tasks, cur, lock, scraped_urls,
                    scraped_data, failed_urls, progress_counter,
                    self_url_to_type, member_urls, returned,
                    failed_copy, retry_data, ridx, files, interrupted >>

\* The end of the with block of one member type, and the next base_url.
DiscoverNext ==
    /\ mpc = "discover_collect"
    /\ AllYielded
    /\ tasks' = NoFutures
    /\ collected' = {}
    /\ IF sec < Len(MEMBERS_URLS)
       THEN sec' = sec + 1 /\ mpc' = "discover_submit"
       ELSE UNCHANGED sec /\ mpc' = "discover_return"
    /\ UNCHANGED unitVars
    /\ UNCHANGED << site, cur, lock, scraped_urls, scraped_data,
                    failed_urls, progress_counter, url_to_type,
                    self_url_to_type, all_urls, member_urls, returned,
                    failed_copy, retry_data, ridx, files, interrupted >>

\* A merge that keeps every occurrence.
UniqueUrlsKeepAll(urls) == urls

\* Lines 85-90: the duplicates removed, the order kept.
RECURSIVE UniqueLoop(_, _)
UniqueLoop(urls, unique_urls) ==
    IF urls = << >> THEN unique_urls
    ELSE UniqueLoop(Tail(urls),
             IF Head(urls) \in Range(unique_urls) THEN unique_urls
             ELSE Append(unique_urls, Head(urls)))

UniqueUrls(urls) == UniqueLoop(urls, << >>)

\* Lines 82-93.
DiscoverReturn ==
    /\ mpc = "discover_return"
    /\ self_url_to_type' = url_to_type
    /\ member_urls' = UniqueUrls(all_urls)
    /\ url_to_type' = << >>
    /\ all_urls' = << >>
    /\ mpc' = "scrape_start"
    /\ UNCHANGED unitVars
    /\ UNCHANGED << site, sec, tasks, collected, cur, lock, scraped_urls,
                    scraped_data, failed_urls, progress_counter, returned,
                    failed_copy, retry_data, ridx, files, interrupted >>

(***************************************************************************)
(* Chef'skiss.py: scrape_all_members, run by the main thread.              *)
(***************************************************************************)
\* A scrape_all_members without its early return.
NoMemberUrlsIgnored(urls) == FALSE

\* Line 161: not member_urls
NoMemberUrls(urls) == urls = << >>

\* Lines 161-172: no URL, or the pool and one call per URL.
ScrapeStart ==
    /\ mpc = "scrape_start"
    /\ IF NoMemberUrls(member_urls)
       THEN /\ returned' = "empty list"
            /\ mpc' = "retry_start"
            /\ UNCHANGED tasks
       ELSE /\ tasks' = [t \in 0..Len(member_urls) |->
                  IF t = 0 THEN IdleCall
                  ELSE NewTask("detail", member_urls[t],
                               TypeOfUrl(self_url_to_type, member_urls[t]),
                               "queued")]
            /\ mpc' = "scrape_collect"
            /\ UNCHANGED returned
    /\ collected' = {}
    /\ UNCHANGED unitVars
    /\ UNCHANGED << site, sec, cur, lock, scraped_urls, scraped_data,
                    failed_urls, progress_counter, url_to_type,
                    self_url_to_type, all_urls, member_urls,
                    failed_copy, retry_data, ridx, files, interrupted >>

\* Lines 174-178: one future yielded by as_completed.
ScrapeCollect ==
    /\ mpc = "scrape_collect"
    /\ \E t \in Futures \ collected :
          /\ Resolved(t)
          /\ IF tasks[t].data # EmptyDict
             THEN cur' = t /\ mpc' = "scrape_lock" /\ UNCHANGED collected
             ELSE collected' = collected \cup {t} /\ UNCHANGED << cur, mpc >>
    /\ UNCHANGED unitVars
    /\ UNCHANGED << site, sec, tasks, lock, scraped_urls, scraped_data,
                    failed_urls, progress_counter, url_to_type,
                    self_url_to_type, all_urls, member_urls, returned,
                    failed_copy, retry_data, ridx, files, interrupted >>

\* Line 179: with self.lock
ScrapeLock ==
    /\ mpc = "scrape_lock"
    /\ lock = Free
    /\ lock' = MainThread
    /\ mpc' = "scrape_append"
    /\ UNCHANGED unitVars
    /\ UNCHANGED << site, sec, tasks, collected, cur, scraped_urls,
                    scraped_data, failed_urls, progress_counter, url_to_type,
                    self_url_to_type, all_urls, member_urls, returned,
                    failed_copy, retry_data, ridx, files, interrupted >>

\* Line 180, and the release of the lock.
ScrapeAppend ==
    /\ mpc = "scrape_append"
    /\ lock = MainThread
    /\ scraped_data' = Append(scraped_data, tasks[cur].data)
    /\ lock' = Release(MainThread)
    /\ collected' = collected \cup {cur}
    /\ cur' = 0
    /\ mpc' = "scrape_collect"
    /\ UNCHANGED unitVars
    /\ UNCHANGED << site, sec, tasks, scraped_urls, failed_urls,
                    progress_counter, url_to_type, self_url_to_type,
                    all_urls, member_urls, returned, failed_copy,
                    retry_data, ridx, files, interrupted >>

\* Lines 185-196: every future yielded, the pool shut down, the return of
\* self.scraped_data.
ScrapeReturn ==
    /\ mpc = "scrape_collect"
    /\ AllYielded
    /\ tasks' = NoFutures
    /\ collected' = {}
    /\ returned' = "self.scraped_data"
    /\ mpc' = "retry_start"
    /\ UNCHANGED unitVars
    /\ UNCHANGED << site, sec, cur, lock, scraped_urls, scraped_data,
                    failed_urls, progress_counter, url_to_type,
                    self_url_to_type, all_urls, member_urls,
                    failed_copy, retry_data, ridx, files, interrupted >>

\* A KeyboardInterrupt reaches the main thread in the as_completed loop of
\* scrape_all_members; leaving "with self.lock" releases the lock.
Interrupt ==
    /\ mpc \in { "scrape_collect", "scrape_lock", "scrape_append" }
    /\ interrupted' = TRUE
    /\ lock' = IF lock = MainThread THEN Free ELSE lock
    /\ cur' = 0
    /\ mpc' = "shutdown_wait"
    /\ UNCHANGED unitVars
    /\ UNCHANGED << site, sec, tasks, collected, scraped_urls, scraped_data,
                    failed_urls, progress_counter, url_to_type,
                    self_url_to_type, all_urls, member_urls, returned,
                    failed_copy, retry_data, ridx, files >>

\* A pool shut down with wait=False.
ShutdownNoWait == TRUE

\* ThreadPoolExecutor.__exit__ is shutdown(wait=True): it returns once every
\* submitted call has run.
ShutdownDone == \A t \in Futures : Resolved(t)

ShutdownWait ==
    /\ mpc = "shutdown_wait"
    /\ ShutdownDone
    /\ mpc' = "interrupt_export"
    /\ UNCHANGED unitVars
    /\ UNCHANGED << site, sec, tasks, collected, cur, lock, scraped_urls,
                    scraped_data, failed_urls, progress_counter, url_to_type,
                    self_url_to_type, all_urls, member_urls, returned,
                    failed_copy, retry_data, ridx, files, interrupted >>

(***************************************************************************)
(* Chef'skiss.py: export_to_excel, retry_failed_urls, main.                *)
(***************************************************************************)
DataFields == Range(DATA_FIELDS)

\* Lines 206-209: the rows of the DataFrame, one per record, a missing
\* column filled with the placeholder.
DataFrame(data) ==
    [k \in 1..Len(data) |->
        [f \in DataFields |->
            IF f \in DOMAIN data[k] THEN data[k][f]
            ELSE MISSING_DATA_PLACEHOLDER]]

\* Lines 280-282 and 307-308 of main with lines 200-212 of export_to_excel:
\* no file is written for an empty list.
ExportToExcel(written, data, filename) ==
    IF data # << >>
    THEN Append(written, [name |-> filename, rows |-> DataFrame(data)])
    ELSE written

\* Lines 302-309.
InterruptExport ==
    /\ mpc = "interrupt_export"
    /\ files' = ExportToExcel(files, scraped_data, "partial_ScrapedData.xlsx")
    /\ mpc' = "done"
    /\ UNCHANGED unitVars
    /\ UNCHANGED << site, sec, tasks, collected, cur, lock, scraped_urls,
                    scraped_data, failed_urls, progress_counter, url_to_type,
                    self_url_to_type, all_urls, member_urls, returned,
                    failed_copy, retry_data, ridx, interrupted >>

\* Lines 243-251.
RetryStart ==
    /\ mpc = "retry_start"
    /\ IF failed_urls = << >>
       THEN /\ mpc' = "export"
            /\ UNCHANGED << failed_copy, failed_urls, ridx >>
       ELSE /\ failed_copy' = failed_urls
            /\ failed_urls' = << >>
            /\ ridx' = 1
            /\ mpc' = "retry_loop"
    /\ retry_data' = << >>
    /\ UNCHANGED unitVars
    /\ UNCHANGED << site, sec, tasks, collected, cur, lock, scraped_urls,
                    scraped_data, progress_counter, url_to_type,
                    self_url_to_type, all_urls, member_urls, returned,
                    files, interrupted >>

\* Lines 252-254: the main thread calls scrape_member_data itself.
RetryCall ==
    /\ mpc = "retry_loop"
    /\ ridx <= Len(failed_copy)
    /\ tasks' = [tasks EXCEPT ![0] =
          NewTask("detail", failed_copy[ridx],
                  TypeOfUrl(self_url_to_type, failed_copy[ridx]), "lock1")]
    /\ mpc' = "retry_wait"
    /\ UNCHANGED unitVars
    /\ UNCHANGED << site, sec, collected, cur, lock, scraped_urls,
                    scraped_data, failed_urls, progress_counter, url_to_type,
                    self_url_to_type, all_urls, member_urls, returned,
                    failed_copy, retry_data, ridx, files, interrupted >>

\* Lines 255-256.
RetryResult ==
    /\ mpc = "retry_wait"
    /\ tasks[0].pc = "done"
    /\ retry_data' = IF tasks[0].data # EmptyDict
                     THEN Append(retry_data, tasks[0].data)
                     ELSE retry_data
    /\ tasks' = [tasks EXCEPT ![0] = IdleCall]
    /\ ridx' = ridx + 1
    /\ mpc' = "retry_loop"
    /\ UNCHANGED unitVars
    /\ UNCHANGED << site, sec, collected, cur, lock, scraped_urls,
                    scraped_data, failed_urls, progress_counter, url_to_type,
                    self_url_to_type, all_urls, member_urls, returned,
                    failed_copy, files, interrupted >>

\* Lines 258-262.
RetryReturn ==
    /\ mpc = "retry_loop"
    /\ ridx > Len(failed_copy)
    /\ scraped_data' = scraped_data \o retry_data
    /\ failed_copy' = << >>
    /\ retry_data' = << >>
    /\ ridx' = 0
    /\ mpc' = "export"
    /\ UNCHANGED unitVars
    /\ UNCHANGED << site, sec, tasks, collected, cur, lock, scraped_urls,
                    failed_urls, progress_counter, url_to_type,
                    self_url_to_type, all_urls, member_urls, returned,
                    files, interrupted >>

\* The list main holds as scraped_data: self.scraped_data itself, or the
\* empty list scrape_all_members returned at line 163.
MainScrapedData ==
    IF returned = "self.scraped_data" THEN scraped_data ELSE << >>

\* Lines 280-300.
Export ==
    /\ mpc = "export"
    /\ files' = ExportToExcel(files, MainScrapedData, "ScrapedData.xlsx")
    /\ mpc' = "done"
    /\ UNCHANGED unitVars
    /\ UNCHANGED << site, sec, tasks, collected, cur, lock, scraped_urls,
                    scraped_data, failed_urls, progress_counter, url_to_type,
                    self_url_to_type, all_urls, member_urls, returned,
                    failed_copy, retry_data, ridx, interrupted >>

(***************************************************************************)
(* The run.                                                                *)
(***************************************************************************)
Next ==
    \/ \E t \in DOMAIN tasks : Start(t)
    \/ \E t \in DOMAIN tasks : Attempt(t)
    \/ \E t \in DOMAIN tasks : ListingReturn(t)
    \/ \E t \in DOMAIN tasks : AcquireVisited(t)
    \/ \E t \in DOMAIN tasks : CheckVisited(t)
    \/ \E t \in DOMAIN tasks : DetailNoResponse(t)
    \/ \E t \in DOMAIN tasks : DetailParse(t)
    \/ \E t \in DOMAIN tasks : AcquireProgress(t)
    \/ \E t \in DOMAIN tasks : CountProgress(t)
    \/ DiscoverSubmit
    \/ DiscoverCollect
    \/ DiscoverNext
    \/ DiscoverReturn
    \/ ScrapeStart
    \/ ScrapeCollect
    \/ ScrapeLock
    \/ ScrapeAppend
    \/ ScrapeReturn
    \/ Interrupt
    \/ ShutdownWait
    \/ InterruptExport
    \/ RetryStart
    \/ RetryCall
    \/ RetryResult
    \/ RetryReturn
    \/ Export

Spec == Init /\ [][Next]_vars

\* The run with its scheduling: as long as some thread can take a step, a
\* step is taken (a runnable thread is not suspended for ever, a sleep and
\* a request with a timeout end).
SpecFair == Init /\ [][Next]_vars /\ WF_vars(Next)

(***************************************************************************)
(* scrape_all_members over a list of URLs that holds duplicates (the call  *)
(* of get_all_member_urls stubbed): the same URL handed to several calls   *)
(* of scrape_member_data running in the pool.                              *)
(***************************************************************************)
\* Number of URLs handed to the pool.
MaxSubmit == 2

InitDup ==
    /\ site = FixedSite
    /\ mpc = "scrape_start"
    /\ sec = Len(MEMBERS_URLS)
    /\ tasks = NoFutures
    /\ collected = {}
    /\ cur = 0
    /\ lock = Free
    /\ scraped_urls = {}
    /\ scraped_data = << >>
    /\ failed_urls = << >>
    /\ progress_counter = 0
    /\ url_to_type = << >>
    /\ self_url_to_type = << >>
    /\ all_urls = << >>
    /\ member_urls \in [1..MaxSubmit -> MemberUrls]
    /\ returned = "nothing"
    /\ failed_copy = << >>
    /\ retry_data = << >>
    /\ ridx = 0
    /\ files = << >>
    /\ interrupted = FALSE
    /\ unit_soup = NoSoup
    /\ raise_at = 0
    /\ record = EmptyDict
    /\ upc = "unused"
    /\ is_valid = FALSE
    /\ pages = << >>
    /\ found = << >>
    /\ merged = << >>

NextDup ==
    \/ \E t \in DOMAIN tasks : Start(t)
    \/ \E t \in DOMAIN tasks : Attempt(t)
    \/ \E t \in DOMAIN tasks : AcquireVisited(t)
    \/ \E t \in DOMAIN tasks : CheckVisited(t)
    \/ \E t \in DOMAIN tasks : DetailNoResponse(t)
    \/ \E t \in DOMAIN tasks : DetailParse(t)
    \/ \E t \in DOMAIN tasks : AcquireProgress(t)
    \/ \E t \in DOMAIN tasks : CountProgress(t)
    \/ ScrapeStart
    \/ ScrapeCollect
    \/ ScrapeLock
    \/ ScrapeAppend
    \/ ScrapeReturn

SpecDup == InitDup /\ [][NextDup]_vars

(***************************************************************************)
(* get_all_member_urls alone, on sites whose listing pages overlap.        *)
(***************************************************************************)
\* A site on which the members of shared are listed on every filter page of
\* their sections (the trending page repeats members of the letter pages);
\* the other members are listed as on FixedSite.
DiscoverSite(shared) ==
    [u \in ListingUrls |->
        LET s == CHOOSE s \in 1..Len(MEMBERS_URLS) :
                    \E f \in 1..NumFilters :
                        ListingUrl(MEMBERS_URLS[s], ALPHABET_FILTERS[f]) = u
            f == CHOOSE f \in 1..NumFilters :
                    ListingUrl(MEMBERS_URLS[s], ALPHABET_FILTERS[f]) = u
        IN  << "/members/" >>
            \o MemberLinks({ i \in 1..NumUrls :
                               /\ i = 1 \/ SectionOf(i) = s
                               /\ i \in shared \/ FilterOf(i) = f }, 1)
            \o << "/about" >>]

DiscoverSites == { DiscoverSite(shared) : shared \in SUBSET (1..NumUrls) }

InitDiscover ==
    /\ site \in DiscoverSites
    /\ mpc = "discover_submit"
    /\ sec = 1
    /\ tasks = [t \in {0} |-> IdleCall]
    /\ collected = {}
    /\ cur = 0
    /\ lock = Free
    /\ scraped_urls = {}
    /\ scraped_data = << >>
    /\ failed_urls = << >>
    /\ progress_counter = 0
    /\ url_to_type = << >>
    /\ self_url_to_type = << >>
    /\ all_urls = << >>
    /\ member_urls = << >>
    /\ returned = "nothing"
    /\ failed_copy = << >>
    /\ retry_data = << >>
    /\ ridx = 0
    /\ files = << >>
    /\ interrupted = FALSE
    /\ unit_soup = NoSoup
    /\ raise_at = 0
    /\ record = EmptyDict
    /\ upc = "unused"
    /\ is_valid = FALSE
    /\ pages = << >>
    /\ found = << >>
    /\ merged = << >>

NextDiscover ==
    \/ \E t \in DOMAIN tasks : Start(t)
    \/ \E t \in DOMAIN tasks : Attempt(t)
    \/ \E t \in DOMAIN tasks : ListingReturn(t)
    \/ DiscoverSubmit
    \/ DiscoverCollect
    \/ DiscoverNext
    \/ DiscoverReturn

SpecDiscover == InitDiscover /\ [][NextDiscover]_vars

(***************************************************************************)
(* extract_member_data called alone on a page, one of its steps raising or *)
(* none.                                                                   *)
(***************************************************************************)
\* Number of li, div, p and table elements of a page.
MaxElems == 2

UnitHeads ==
    { [h1 |-> << >>, title |-> << >>],
      [h1 |-> << >>, title |-> << "TAAN  Members" >>],
      [h1 |-> << "  Alpha\n Treks ", "Contact" >>, title |-> << "TAAN" >>] }

UnitElems ==
    { Elem("li", "Reg. No: 12345", ""),
      Elem("p", " VAT No. :  600 111 ", ""),
      Elem("li", "Email: write us", "mailto:x@y.com"),
      Elem("div", "Email: info@example.com", ""),
      Elem("li", "Organization Name: Beta  Tours", ""),
      Elem("p", "Trekking agency in Kathmandu", ""),
      Table(<< << Cell("td", "Reg. No:", ""), Cell("td", "12345", "") >> >>),
      Table(<< << Cell("th", "Website", ""),
                  Cell("td", "visit", "http://alpha.example") >>,
               << Cell("td", "Mobile", ""), Cell("td", "98010", "") >>,
               << Cell("td", "VAT No", ""), Cell("td", "600111", "") >>,
               << Cell("td", "only one cell", "") >> >>) }

RECURSIVE SeqsUpTo(_, _)
SeqsUpTo(S, n) ==
    IF n = 0 THEN { << >> }
    ELSE LET shorter == SeqsUpTo(S, n - 1)
         IN  shorter \cup { Append(q, x) : q \in shorter, x \in S }

UnitSoups ==
    { [h1 |-> h.h1, title |-> h.title, body |-> b] :
        h \in UnitHeads, b \in SeqsUpTo(UnitElems, MaxElems) }

InitExtract ==
    /\ site = FixedSite
    /\ mpc = "unit"
    /\ sec = 1
    /\ tasks = NoFutures
    /\ collected = {}
    /\ cur = 0
    /\ lock = Free
    /\ scraped_urls = {}
    /\ scraped_data = << >>
    /\ failed_urls = << >>
    /\ progress_counter = 0
    /\ url_to_type = << >>
    /\ self_url_to_type = << >>
    /\ all_urls = << >>
    /\ member_urls = << >>
    /\ returned = "nothing"
    /\ failed_copy = << >>
    /\ retry_data = << >>
    /\ ridx = 0
    /\ files = << >>
    /\ interrupted = FALSE
    /\ unit_soup \in UnitSoups
    /\ raise_at \in 0..Len(ExtractSteps(unit_soup))
    /\ record = EmptyDict
    /\ upc = "call"
    /\ is_valid = FALSE
    /\ pages = << >>
    /\ found = << >>
    /\ merged = << >>

\* data = extract_member_data(soup)
ExtractCall ==
    /\ upc = "call"
    /\ record' = extract_member_data(unit_soup, raise_at)
    /\ upc' = "returned"
    /\ UNCHANGED << unit_soup, raise_at, is_valid, pages, found, merged >>
    /\ UNCHANGED << site, mpc, sec, tasks, collected, cur, lock, scraped_urls,
                    scraped_data, failed_urls, progress_counter, url_to_type,
                    self_url_to_type, all_urls, member_urls, returned,
                    failed_copy, retry_data, ridx, files, interrupted >>

\* Lines 124 and 127 of scrape_member_data: data['Member Type'] =
\* member_type, then validate_data(data).
ExtractValidate ==
    /\ upc = "returned"
    /\ \E b \in 1..Len(MEMBERS_URLS) :
          record' = [record EXCEPT !["Member Type"] = MemberTypeOf(MEMBERS_URLS[b])]
    /\ is_valid' = validate_data(record')
    /\ upc' = "validated"
    /\ UNCHANGED << unit_soup, raise_at, pages, found, merged >>
    /\ UNCHANGED << site, mpc, sec, tasks, collected, cur, lock, scraped_urls,
                    scraped_data, failed_urls, progress_counter, url_to_type,
                    self_url_to_type, all_urls, member_urls, returned,
                    failed_copy, retry_data, ridx, files, interrupted >>

NextExtract ==
    \/ ExtractCall
    \/ ExtractValidate

SpecExtract == InitExtract /\ [][NextExtract]_vars

(***************************************************************************)
(* extract_member_urls called alone on two listing pages, and the merge of *)
(* what it returned into one list (lines 76 and 85-90 of Chef'skiss.py).   *)
(***************************************************************************)
\* Number of anchors of a listing page.
MaxLinks == 2

UnitHrefs ==
    { "/members/", "/members/m1", "https://www.taan.org.np/members/m1",
      "/members/m2", "/about" }

UnitPages == SeqsUpTo(UnitHrefs, MaxLinks)

InitUrls ==
    /\ site = FixedSite
    /\ mpc = "unit"
    /\ sec = 1
    /\ tasks = NoFutures
    /\ collected = {}
    /\ cur = 0
    /\ lock = Free
    /\ scraped_urls = {}
    /\ scraped_data = << >>
    /\ failed_urls = << >>
    /\ progress_counter = 0
    /\ url_to_type = << >>
    /\ self_url_to_type = << >>
    /\ all_urls = << >>
    /\ member_urls = << >>
    /\ returned = "nothing"
    /\ failed_copy = << >>
    /\ retry_data = << >>
    /\ ridx = 0
    /\ files = << >>
    /\ interrupted = FALSE
    /\ unit_soup = NoSoup
    /\ raise_at = 0
    /\ record = EmptyDict
    /\ upc = "urls_call"
    /\ is_valid = FALSE
    /\ pages \in { << p, q >> : p \in UnitPages, q \in UnitPages }
    /\ found = << >>
    /\ merged = << >>

\* member_urls = extract_member_urls(soup, BASE_URL), for each page
UrlsExtract ==
    /\ upc = "urls_call"
    /\ found' = [k \in 1..Len(pages) |-> extract_member_urls(pages[k], BASE_URL)]
    /\ upc' = "extracted"
    /\ UNCHANGED << unit_soup, raise_at, record, is_valid, pages, merged >>
    /\ UNCHANGED << site, mpc, sec, tasks, collected, cur, lock, scraped_urls,
                    scraped_data, failed_urls, progress_counter, url_to_type,
                    self_url_to_type, all_urls, member_urls, returned,
                    failed_copy, retry_data, ridx, files, interrupted >>

\* all_urls.extend(urls) for each page, then the deduplication.
UrlsMerge ==
    /\ upc = "extracted"
    /\ merged' = UniqueUrls(Flatten(found))
    /\ upc' = "merged"
    /\ UNCHANGED << unit_soup, raise_at, record, is_valid, pages, found >>
    /\ UNCHANGED << site, mpc, sec, tasks, collected, cur, lock, scraped_urls,
                    scraped_data, failed_urls, progress_counter, url_to_type,
                    self_url_to_type, all_urls, member_urls, returned,
                    failed_copy, retry_data, ridx, files, interrupted >>

NextUrls ==
    \/ UrlsExtract
    \/ UrlsMerge

SpecUrls == InitUrls /\ [][NextUrls]_vars

(***************************************************************************)
(* The claims.                                                             *)
(***************************************************************************)
\* The records of a list that come from the detail page of a URL.
RecordsFor(data, url) ==
    { k \in 1..Len(data) : data[k]["Organization Name"] = OrgNameOf(url) }

Occurrences(seq, x) == Cardinality({ k \in 1..Len(seq) : seq[k] = x })

DetailCalls(url) ==
    { t \in Futures : tasks[t].kind = "detail" /\ tasks[t].url = url }

\* C1 (as claimed): the Retry Pass fetches again every URL it retries (no
\* retried call returns without having asked for the page), and leaves at
\* most one record per URL.
C1_RetryFetchesAgain ==
    /\ (mpc = "retry_wait" /\ tasks[0].pc = "done") => tasks[0].resp # "unset"
    /\ \A u \in MemberUrls : Cardinality(RecordsFor(scraped_data, u)) <= 1

\* C2: of the calls of scrape_member_data given the same URL at most one
\* passes the check-and-insert of the visited set and fetches the page, at
\* most one returns a record, and once every future is collected the result
\* collection holds exactly one record of the URL when the call that fetched
\* it got the page and parsed it (its fetch succeeded and it logged no
\* failure), none otherwise.
C2_VisitedSetExclusive ==
    \A u \in MemberUrls :
        LET passed == { t \in DetailCalls(u) :
                          \/ tasks[t].pc \in { "request", "respond", "lock2", "count" }
                          \/ tasks[t].pc = "done" /\ tasks[t].resp # "unset" }
            produced == { t \in DetailCalls(u) : tasks[t].data # EmptyDict }
        IN  /\ Cardinality(passed) <= 1
            /\ produced \subseteq passed
            /\ \A t \in produced : tasks[t].resp = "ok"
            /\ Cardinality(RecordsFor(scraped_data, u)) <= 1
            /\ (mpc = "scrape_collect" /\ collected = Futures) =>
                  /\ Cardinality(RecordsFor(scraped_data, u)) = Cardinality(produced)
                  /\ (\E t \in passed : tasks[t].resp = "ok"
                                           /\ u \notin Range(failed_urls)) =>
                        Cardinality(RecordsFor(scraped_data, u)) = 1

\* C2's case: a URL handed to two calls or more, every future collected, one
\* record of it stored.
C2_Witness ==
    \E u \in MemberUrls :
        /\ Cardinality(DetailCalls(u)) >= 2
        /\ mpc = "scrape_collect" /\ collected = Futures
        /\ Cardinality(RecordsFor(scraped_data, u)) = 1

C4_OutstandingFailuresLogged ==
    (mpc = "done" /\ ~interrupted) =>
        \A u \in Range(member_urls) :
            RecordsFor(scraped_data, u) = {} => u \in Range(failed_urls)

\* C5: a URL whose fetch is about to fail for good has been asked for
\* RETRY_ATTEMPTS times and is not in the failure log yet; once its call has
\* returned the URL is in the failure log exactly once, the call returned
\* no record and the result collection holds none.
C5_ExhaustedFetchLoggedOnce ==
    \A t \in Futures :
        /\ (tasks[t].kind = "detail" /\ tasks[t].pc = "respond"
                /\ tasks[t].resp = "none") =>
              /\ tasks[t].gets = RETRY_ATTEMPTS
              /\ Occurrences(failed_urls, tasks[t].url) = 0
        /\ (tasks[t].kind = "detail" /\ tasks[t].pc = "done"
                /\ tasks[t].resp = "none") =>
              /\ Occurrences(failed_urls, tasks[t].url) = 1
              /\ tasks[t].data = EmptyDict
              /\ RecordsFor(scraped_data, tasks[t].url) = {}

\* C5's case: a call of the Scrape phase has returned after its fetch failed.
C5_Witness ==
    \E t \in Futures :
        /\ tasks[t].kind = "detail" /\ tasks[t].pc = "done"
        /\ tasks[t].resp = "none"
        /\ tasks[t].url \in Range(failed_urls)

\* C6 (as claimed): the member type stored for a URL is never overwritten.
C6_FirstAssignmentWins ==
    [][\A u \in DOMAIN url_to_type \cap DOMAIN url_to_type' :
          url_to_type'[u] = url_to_type[u]]_vars

\* C6 (amended): the last assignment wins. Every listing page collected
\* tags each of its URLs with the member type of the section being walked,
\* whatever tag the URL had, and the Member Type of a stored record is the
\* tag stored for its URL.
C6_LastAssignmentWins ==
    /\ [][(mpc = "discover_collect" /\ all_urls' # all_urls) =>
            \A k \in (Len(all_urls) + 1)..Len(all_urls') :
                /\ all_urls'[k] \in DOMAIN url_to_type'
                /\ url_to_type'[all_urls'[k]] = MemberTypeOf(MEMBERS_URLS[sec])]_vars
    /\ [](\A k \in 1..Len(scraped_data) :
            \E u \in DOMAIN self_url_to_type :
                /\ scraped_data[k]["Organization Name"] = OrgNameOf(u)
                /\ scraped_data[k]["Member Type"] = self_url_to_type[u])

\* C6's case: a URL collected under two sections carries the tag of the
\* later one, and its record too.
C6_Witness ==
    /\ MemberUrl(1) \in DOMAIN self_url_to_type
    /\ self_url_to_type[MemberUrl(1)] = "Regional"
    /\ \E k \in 1..Len(scraped_data) :
          /\ scraped_data[k]["Organization Name"] = OrgNameOf(MemberUrl(1))
          /\ scraped_data[k]["Member Type"] = "Regional"

\* C7: after an interrupt in the Scrape phase the Retry Pass never runs, no
\* record is added and no call is taken out of the pool; the run ends only
\* when every call has run to its end, and what it has written then is one
\* partial file holding the result collection, or nothing when the
\* collection is empty.
C7_InterruptPartialExport ==
    /\ [](interrupted =>
            mpc \in { "shutdown_wait", "interrupt_export", "done" })
    /\ []((interrupted /\ mpc = "done") =>
            /\ \A t \in Futures : tasks[t].pc = "done"
            /\ IF scraped_data = << >> THEN files = << >>
               ELSE /\ Len(files) = 1
                    /\ files[1].name = "partial_ScrapedData.xlsx"
                    /\ files[1].rows = scraped_data)
    /\ [][interrupted' =>
            /\ scraped_data' = scraped_data
            /\ DOMAIN tasks' = DOMAIN tasks
            /\ ~interrupted => tasks' = tasks
            /\ interrupted =>
                  \A t \in Futures : tasks[t].pc = "done" => tasks'[t] = tasks[t]]_vars

\* C7's case: an interrupted run has ended with a partial file, and a call
\* that was in flight finished after the interrupt (its record is not among
\* the exported ones).
C7_Witness ==
    /\ interrupted /\ mpc = "done" /\ Len(files) = 1
    /\ \E t \in Futures \ collected : tasks[t].data # EmptyDict

\* C8: when get_all_member_urls has returned no URL, scrape_all_members
\* returns an empty list without creating the pool, the visited set, the
\* result collection and the failure log stay empty, the counter stays 0 and
\* no file is written.
C8_NoUrlsNoScrape ==
    (member_urls = << >>
        /\ mpc \notin { "discover_submit", "discover_collect",
                        "discover_return", "scrape_start", "unit" }) =>
        /\ mpc \in { "retry_start", "export", "done" }
        /\ returned = "empty list"
        /\ Futures = {}
        /\ scraped_urls = {}
        /\ scraped_data = << >>
        /\ failed_urls = << >>
        /\ progress_counter = 0
        /\ files = << >>

\* C8's case: a run that discovered no URL has ended.
C8_Witness ==
    mpc = "done" /\ member_urls = << >> /\ returned = "empty list"

\* C9 (as claimed): when a step of extract_member_data raises, every field
\* of the record it returns is the placeholder.
C9_ExceptionYieldsPlaceholders ==
    (upc = "returned" /\ raise_at > 0) =>
        /\ DOMAIN record = DataFields
        /\ \A f \in DataFields : record[f] = MISSING_DATA_PLACEHOLDER

\* C10: safe_request never asks more than RETRY_ATTEMPTS times; as long as
\* it asks, every earlier attempt has failed; it returns the response of a
\* successful attempt at once, and None exactly after RETRY_ATTEMPTS failed
\* attempts; it always returns (a response or None).
C10_SafeRequestBounded ==
    \A t \in DOMAIN tasks :
        /\ tasks[t].gets <= RETRY_ATTEMPTS
        /\ tasks[t].pc = "request" =>
              /\ tasks[t].resp = "unset"
              /\ tasks[t].gets = tasks[t].attempt
              /\ tasks[t].attempt < RETRY_ATTEMPTS
        /\ tasks[t].pc = "respond" =>
              /\ tasks[t].resp \in { "ok", "none" }
              /\ tasks[t].gets = tasks[t].attempt + 1
              /\ tasks[t].resp = "none" => tasks[t].gets = RETRY_ATTEMPTS

\* C10's case: a call of safe_request has returned None after its last
\* attempt, another has returned a response after a failed attempt.
C10_Witness ==
    /\ \E t \in DOMAIN tasks :
          /\ tasks[t].pc = "respond" /\ tasks[t].resp = "none"
          /\ tasks[t].gets = RETRY_ATTEMPTS
    /\ \E t \in DOMAIN tasks :
          /\ tasks[t].pc = "respond" /\ tasks[t].resp = "ok"
          /\ tasks[t].gets = 2

\* C11: the visited set holds the URL of every stored record and of every
\* entry of the failure log; a call that is fetching a page, has fetched it
\* or has extracted its record entered the URL in the visited set before;
\* and no step takes a URL out of the visited set.
C11_VisitedSetCovers ==
    /\ [](\A u \in MemberUrls :
            (RecordsFor(scraped_data, u) # {} \/ u \in Range(failed_urls)
                \/ u \in Range(failed_copy)) => u \in scraped_urls)
    /\ [](\A t \in DOMAIN tasks :
            (tasks[t].kind = "detail"
                /\ (tasks[t].pc \in { "request", "respond", "lock2", "count" }
                     \/ tasks[t].gets > 0 \/ tasks[t].resp # "unset"
                     \/ tasks[t].data # EmptyDict)) =>
                tasks[t].url \in scraped_urls)
    /\ [][scraped_urls \subseteq scraped_urls']_vars

\* C11's case: a run that has stored the record of one URL and logged the
\* failure of another, both URLs in the visited set.
C11_Witness ==
    \E u, v \in scraped_urls :
        /\ RecordsFor(scraped_data, u) # {}
        /\ v \in Range(failed_urls)
        /\ u # v

\* C12 (as claimed): every step that changes the visited set, the result
\* collection, the failure log or the progress counter is taken by the
\* thread that holds the lock (a worker changes its own call, the main
\* thread its own position or the call it makes itself).
C12_SharedStateUnderLock ==
    [][(scraped_urls' # scraped_urls \/ scraped_data' # scraped_data
            \/ failed_urls' # failed_urls
            \/ progress_counter' # progress_counter) =>
          /\ lock \in DOMAIN tasks
          /\ lock # MainThread => tasks'[lock] # tasks[lock]
          /\ lock = MainThread => (mpc' # mpc \/ tasks'[0] # tasks[0])]_vars

\* C13: a call whose record validate_data rejects (a warning is logged)
\* returns that record all the same; once its future is collected the
\* record is in the result collection, and a run that ends after the Retry
\* Pass has exported every record of the result collection, rejected ones
\* included.
C13_ValidationDoesNotFilter ==
    /\ \A t \in Futures :
          tasks[t].warned =>
              /\ tasks[t].data # EmptyDict
              /\ ~validate_data(tasks[t].data)
              /\ t \in collected =>
                    \E k \in 1..Len(scraped_data) : scraped_data[k] = tasks[t].data
    /\ (mpc = "done" /\ ~interrupted /\ scraped_data # << >>) =>
          /\ Len(files) = 1
          /\ Len(files[1].rows) = Len(scraped_data)
          /\ \A k \in 1..Len(scraped_data) : files[1].rows[k] = scraped_data[k]

\* C13's case: a run has ended with a record in its file that validate_data
\* rejects.
C13_Witness ==
    /\ mpc = "done" /\ ~interrupted /\ Len(files) = 1
    /\ \E k \in 1..Len(files[1].rows) : ~validate_data(files[1].rows[k])

\* The index of the first occurrence of x in a sequence.
FirstIndex(seq, x) == CHOOSE i \in 1..Len(seq) :
                          seq[i] = x /\ \A j \in 1..(i - 1) : seq[j] # x

\* out holds every element of inp once, in the order of first occurrence.
FirstSeenOnce(out, inp) ==
    /\ Range(out) = Range(inp)
    /\ \A i, j \in 1..Len(out) : i # j => out[i] # out[j]
    /\ \A i, j \in 1..Len(out) :
          i < j => FirstIndex(inp, out[i]) < FirstIndex(inp, out[j])

\* The absolute URLs of the member anchors of a page, repetitions kept.
MemberAnchors(links) ==
    LET hrefs == SelectSeq(links, IsMemberHref)
    IN  [k \in 1..Len(hrefs) |-> urljoin(BASE_URL, hrefs[k])]

\* C14: what extract_member_urls returns for a page holds the absolute URL
\* of every member anchor of the page once, in the order of first
\* occurrence; the merged list holds every URL returned for some page once,
\* in the order of first occurrence.
C14_UrlsOnceFirstSeen ==
    /\ upc \in { "extracted", "merged" } =>
          \A k \in 1..Len(pages) : FirstSeenOnce(found[k], MemberAnchors(pages[k]))
    /\ upc = "merged" => FirstSeenOnce(merged, Flatten(found))

\* C14's case: a page names the same member twice, the two pages share a
\* member, and the merged list holds two URLs.
C14_Witness ==
    /\ upc = "merged"
    /\ \E k \in 1..Len(pages) : Len(MemberAnchors(pages[k])) > Len(found[k])
    /\ Len(Flatten(found)) > Len(merged)
    /\ Len(merged) = 2

\* The fields of a record that are not the placeholder.
Populated(data) == { f \in DOMAIN data : data[f] # MISSING_DATA_PLACEHOLDER }

\* C15: validate_data accepts a record exactly when its Organization Name
\* is not the placeholder and three fields of it or more are not the
\* placeholder; it rejects a record of which only Organization Name and
\* Member Type are populated.
C15_ValidateData ==
    upc = "validated" =>
        /\ is_valid <=>
              /\ "Organization Name" \in Populated(record)
              /\ \E f, g, h \in Populated(record) : f # g /\ g # h /\ f # h
        /\ Populated(record) = { "Organization Name", "Member Type" } => ~is_valid

\* C15's case: a record with a name and a member type only was validated.
C15_Witness ==
    /\ upc = "validated"
    /\ Populated(record) = { "Organization Name", "Member Type" }
    /\ ~is_valid

\* C16: a thread that is in safe_request (asking for a page, or sleeping
\* before or between attempts) or holds its response does not hold the
\* lock; a worker holds the lock only at the check-and-insert of the
\* visited set and at the update of the progress counter, the main thread
\* only at the append to the result collection or at those two steps of
\* the call it makes itself.
C16_NoLockDuringIO ==
    /\ \A t \in DOMAIN tasks :
          tasks[t].pc \in { "request", "respond" } => lock # t
    /\ \A t \in Futures :
          lock = t => tasks[t].pc \in { "check", "count" }
    /\ lock = MainThread =>
          \/ mpc = "scrape_append"
          \/ tasks[0].pc \in { "check", "count" }

\* C16's case: a worker is between two attempts of a fetch while another
\* thread holds the lock.
C16_Witness ==
    \E t \in Futures :
        /\ tasks[t].kind = "detail"
        /\ tasks[t].pc = "request"
        /\ tasks[t].gets >= 1
        /\ lock # Free
        /\ lock # t

DiscoveryStates == { "discover_submit", "discover_collect", "discover_return" }
ScrapeStates == { "scrape_start", "scrape_collect", "scrape_lock", "scrape_append" }
RetryStates == { "retry_start", "retry_loop", "retry_wait" }

\* C17: Discovery, then Scrape, then Retry. While Discovery runs no call of
\* scrape_member_data exists and the visited set is empty; Discovery leaves
\* a section only when every listing-page future has resolved; Scrape
\* starts from the end of Discovery only, and no listing-page call is left
\* when a detail call exists; the Retry Pass starts from Scrape only, when
\* every detail future has resolved, and while it runs the pool is gone and
\* the only call in progress is the one the main thread makes itself.
C17_PhaseOrder ==
    /\ [](mpc \in DiscoveryStates =>
            /\ scraped_urls = {}
            /\ \A t \in DOMAIN tasks : tasks[t].kind # "detail")
    /\ []((\E t \in Futures : tasks[t].kind = "detail") =>
            /\ mpc \notin DiscoveryStates \cup RetryStates
            /\ \A t \in Futures : tasks[t].kind = "detail")
    /\ [](mpc \in RetryStates =>
            /\ Futures = {}
            /\ lock \in { Free, MainThread }
            /\ mpc # "retry_wait" => tasks[0].pc = "idle")
    /\ [][(mpc = "discover_collect" /\ mpc' # mpc) =>
            \A t \in Futures : Resolved(t)]_vars
    /\ [][(mpc' = "scrape_start" /\ mpc' # mpc) => mpc = "discover_return"]_vars
    /\ [][(mpc' = "retry_start" /\ mpc' # mpc) =>
            /\ mpc \in ScrapeStates
            /\ \A t \in Futures : Resolved(t)]_vars

\* C17's case: the Retry Pass is running a call for a URL whose fetch failed
\* in the Scrape phase.
C17_Witness ==
    /\ mpc = "retry_wait"
    /\ tasks[0].kind = "detail"
    /\ tasks[0].pc = "check"
    /\ Len(scraped_data) >= 1

\* C18: whatever calls fail, every listing-page future of a section
\* resolves, every detail future resolves, the Scrape phase ends (at the
\* Retry Pass, or at the partial export after an interrupt), the Retry Pass
\* ends at the export, and the run ends.
C18_EveryTaskResolves ==
    /\ (mpc = "discover_collect") ~>
          (mpc = "discover_collect" /\ \A t \in Futures : Resolved(t))
    /\ (mpc = "scrape_collect") ~>
          (Futures # {} /\ \A t \in Futures : Resolved(t))
    /\ (mpc \in ScrapeStates) ~> (mpc \in { "retry_start", "interrupt_export" })
    /\ (mpc \in RetryStates) ~> (mpc = "export")
    /\ <>(mpc = "done")

\* C18's case: the Scrape phase has ended although a detail call failed
\* and another one returned a record.
C18_Witness ==
    /\ mpc = "retry_start"
    /\ failed_urls # << >>
    /\ scraped_data # << >>

\* C19: in safe_request every GET comes right after a sleep of the
\* politeness delay; a failed attempt k (from 0) that is not the last one is
\* followed at once by a sleep of 2^k seconds and then by the delay of the
\* next attempt; nothing follows the last failed attempt, nor a successful
\* one; and the call sleeps at no other time.
C19_DelayAndBackoff ==
    \A t \in DOMAIN tasks :
        LET tr == tasks[t].trace
            gets == { i \in 1..Len(tr) : tr[i][1] = "get" }
        IN  /\ Cardinality(gets) = tasks[t].gets
            /\ \A i \in gets :
                  /\ i > 1
                  /\ tr[i - 1] = << "sleep", DELAY_BETWEEN_REQUESTS >>
                  /\ Cardinality({ j \in gets : j < i }) = tr[i][2]
            /\ \A i \in gets :
                  LET k == tr[i][2]
                      failed == i < Len(tr) \/ tasks[t].resp = "none"
                  IN  IF failed /\ k < RETRY_ATTEMPTS - 1
                      THEN /\ Len(tr) > i
                           /\ tr[i + 1] = << "sleep", (2 ^ k) * TicksPerSecond >>
                           /\ tasks[t].pc = "request"
                                \/ (Len(tr) >= i + 3 /\ (i + 3) \in gets)
                      ELSE Len(tr) = i
            /\ Len(tr) = 2 * tasks[t].gets + tasks[t].attempt

\* C19's case: a call of safe_request has failed RETRY_ATTEMPTS times, with
\* a backoff of one second and then of two seconds between its attempts.
C19_Witness ==
    \E t \in DOMAIN tasks :
        /\ tasks[t].pc = "respond" /\ tasks[t].resp = "none"
        /\ tasks[t].trace = << << "sleep", 5 >>, << "get", 0 >>, << "sleep", 10 >>,
                               << "sleep", 5 >>, << "get", 1 >>, << "sleep", 20 >>,
                               << "sleep", 5 >>, << "get", 2 >> >>

\* The rule chain of the list scan without its Mobile Number, Fax and
\* Establishment Date rules and with "reg" alone for the registration
\* number.
TableRuleAsClaimed(data, key, value, href) ==
    IF Contains(key, "organization name")
        THEN [data EXCEPT !["Organization Name"] = value]
    ELSE IF Contains(key, "reg")
        THEN [data EXCEPT !["Registration Number"] = value]
    ELSE IF Contains(key, "vat")
        THEN [data EXCEPT !["VAT Number"] = value]
    ELSE IF Contains(key, "address")
        THEN [data EXCEPT !["Address"] = value]
    ELSE IF Contains(key, "country")
        THEN [data EXCEPT !["Country"] = value]
    ELSE IF Contains(key, "website") \/ Contains(key, "url")
        THEN [data EXCEPT !["Website URL"] = IF href # "" THEN href ELSE value]
    ELSE IF Contains(key, "email")
        THEN [data EXCEPT !["Email"] =
                 IF href # "" /\ Contains(href, "mailto:")
                 THEN Replace(href, "mailto:", "") ELSE value]
    ELSE IF Contains(key, "telephone")
        THEN [data EXCEPT !["Telephone Number"] = value]
    ELSE IF Contains(key, "po box") \/ Contains(key, "p.o")
        THEN [data EXCEPT !["PO Box"] = value]
    ELSE IF Contains(key, "key person")
        THEN [data EXCEPT !["Key Person"] = value]
    ELSE data

\* The label of a table row, as line 144 computes it.
RowLabel(cells) == Replace(Lower(Strip(cells[1].text)), ":", "")

\* C20 (as claimed): once extract_member_data has returned without raising,
\* every row of two cells or more of the page's tables was given the field
\* the list-scan rules give its label, Mobile Number, Fax and Establishment
\* Date left out and "reg" alone naming the registration number; and a page
\* with a row whose label contains "vat" has its VAT Number set.
C20_TableRulesAsClaimed ==
    (upc = "returned" /\ raise_at = 0) =>
        \A k \in 1..Len(TableRows(unit_soup)) :
            LET cells == TableRows(unit_soup)[k] IN
            Len(cells) >= 2 =>
                /\ ApplyRow(InitData, cells) =
                       TableRuleAsClaimed(InitData, RowLabel(cells),
                                          clean_text(cells[2].text), cells[2].href)
                /\ Contains(RowLabel(cells), "vat") =>
                       record["VAT Number"] # MISSING_DATA_PLACEHOLDER

\* C21: when scrape_all_members returns its result collection without
\* having been interrupted, every URL of the deduplicated discovery list
\* has one record and no entry in the failure log, or one entry in the
\* failure log and no record; the failure log names discovered URLs only,
\* and records and failures together are as many as the discovered URLs.
C21_EveryUrlAccountedOnce ==
    (mpc = "retry_start" /\ returned = "self.scraped_data" /\ ~interrupted) =>
        /\ \A u \in Range(member_urls) :
              Cardinality(RecordsFor(scraped_data, u))
                  + Occurrences(failed_urls, u) = 1
        /\ Range(failed_urls) \subseteq Range(member_urls)
        /\ Len(scraped_data) + Len(failed_urls) = Len(member_urls)

\* C21's case: a Scrape phase over two URLs has ended with the record of
\* one and the failure of the other.
C21_Witness ==
    /\ mpc = "retry_start" /\ returned = "self.scraped_data" /\ ~interrupted
    /\ Len(member_urls) = 2
    /\ Len(scraped_data) = 1
    /\ Len(failed_urls) = 1

\* The mapping after the future t of the section being walked is yielded.
TaggedAfter(dict, t) ==
    LET member_type == MemberTypeOf(MEMBERS_URLS[sec])
    IN  IF tasks[t].urls # << >>
        THEN TagUrls(dict, tasks[t].urls,
                     TaggedWith(member_type,
                                FilterName(member_type, ALPHABET_FILTERS[t])))
        ELSE dict

\* C22: the mapping does not depend on the order in which the listing-page
\* futures of a section complete. Whatever futures were yielded so far and
\* in whatever order, every URL they returned carries the member type of
\* the section being walked; yielding a future changes the tag of no URL
\* it did not return; and for any two futures that have completed and are
\* still to be yielded, yielding them in either order gives the same
\* mapping. (The sections themselves are walked one after the other.)
C22_TagsOrderIndependent ==
    /\ [](mpc = "discover_collect" =>
            \A t \in collected : \A u \in Range(tasks[t].urls) :
                /\ u \in DOMAIN url_to_type
                /\ url_to_type[u] = MemberTypeOf(MEMBERS_URLS[sec]))
    /\ [][(mpc = "discover_collect" /\ mpc' = mpc /\ collected' # collected) =>
            \A u \in DOMAIN url_to_type :
                (\A t \in collected' \ collected : u \notin Range(tasks[t].urls)) =>
                    /\ u \in DOMAIN url_to_type'
                    /\ url_to_type'[u] = url_to_type[u]]_vars
    /\ [](mpc = "discover_collect" =>
            \A t1, t2 \in Futures \ collected :
                (Resolved(t1) /\ Resolved(t2)) =>
                    TaggedAfter(TaggedAfter(url_to_type, t1), t2)
                        = TaggedAfter(TaggedAfter(url_to_type, t2), t1))
    /\ [][sec' >= sec]_vars

\* C22's case: in the second section two futures have returned the same
\* URL, which a page of the first section had returned too, and both have
\* been yielded.
C22_Witness ==
    /\ mpc = "discover_collect"
    /\ sec = 2
    /\ \E t1, t2 \in collected :
          /\ t1 # t2
          /\ \E u \in Range(tasks[t1].urls) \cap Range(tasks[t2].urls) :
                /\ Occurrences(all_urls, u) >= 3
                /\ url_to_type[u] = "Associate"

====
